---- MODULE Spec2Model ----
(***************************************************************************)
(* Model of qmims (wSoltani/qmims).                                        *)
(*                                                                         *)
(* Part 1: QChatProcess (src/src/utils/q-cli.ts), the orchestrator of the  *)
(* external "q chat" worker.  One instance is modelled.  Its public        *)
(* methods start(), sendMessage(), stop() and terminate() may be called in *)
(* any order; stop() is async and suspends at `await execa(...)`, so the   *)
(* worker's exit and the continuation of stop() are separate steps that    *)
(* interleave with further calls on the instance.                          *)
(*                                                                         *)
(* Part 2: the markdown utilities parseInstructions and                    *)
(* extractTargetContent (utils/markdown, specified in spec.md 3, 4.1, 4.2  *)
(* and exercised by src/src/__tests__/markdown.test.ts).  A text is the    *)
(* sequence of its lines, which is what split on a newline makes of a      *)
(* string: a string has at least one line, the empty string is the one     *)
(* empty line, and the sequence of no lines stands for a missing value     *)
(* (undefined, null).                                                      *)
(*                                                                         *)
(* Part 3: the edit and generate command handlers                          *)
(* (src/src/commands/edit.ts, src/unnamed/part_001) from the construction  *)
(* of their QChatProcess on: start(), sendMessage(prompt), the SIGINT      *)
(* handler, `await qChat.stop()` and what follows it, preceded by the      *)
(* checks of the handler (existence, dry run, checkQCli, overwrite prompt) *)
(* and by the mode functions of generate.  The handler drives the instance *)
(* of part 1.                                                              *)
(*                                                                         *)
(* Part 4: the template registry (src/src/utils/templates.ts) and the      *)
(* `templates add` command (src/unnamed/part_002).  addTemplate is async   *)
(* and suspends at `await fs.pathExists(sourcePath)`; removeTemplate is    *)
(* synchronous.                                                            *)
(***************************************************************************)
EXTENDS Integers, Sequences, FiniteSets, Bags, TLC

(* ------------------------------ bounds --------------------------------- *)

\* start() calls and stop() calls made on the instance.
MaxStarts == 2
MaxStops == 2

\* Message texts handed to sendMessage(); the empty string is a legal string.
Texts == {"", "a", "b"}
\* Constructor options: sessions that differ in verbose and autoApprove only,
\* and one in another working directory.
Options ==
    {[cwd |-> "/proj", verbose |-> FALSE, autoApprove |-> FALSE],
     [cwd |-> "/proj", verbose |-> TRUE, autoApprove |-> TRUE],
     [cwd |-> "/other", verbose |-> FALSE, autoApprove |-> TRUE]}
EventNames == {"onOutput", "onError", "onExit"}
\* Exit codes of the worker: success, and a failure code other than the default 1.
ExitCodes == {0, 2}

\* Lines of the longest markdown text scanned.
MaxLines == 4

\* addTemplate() calls and removeTemplate() calls made.
MaxAdds == 2
MaxRemoves == 2

(* ------------------------------ state ---------------------------------- *)

VARIABLES
    options,       \* QChatProcess.options: cwd, verbose, autoApprove
    throws,        \* QChatProcess.events: the callbacks that throw when called
    prompt,        \* QChatProcess.prompt
    spinner,       \* QChatProcess.spinner: "null", or the state of the ora spinner it refers to
    orphaned,      \* ora spinners still spinning that this.spinner no longer refers to
    childProcess,  \* QChatProcess.childProcess: 0 (null) or the stop() call that owns it
    stops,         \* the stop() calls made so far, one record per call
    execaCalls,    \* the execa('q', args, opts) invocations, in order
    signals,       \* bag of the events.onOutput/onError/onExit calls made
    killed,        \* stop() calls whose worker was sent kill()
    everSent,      \* history: sendMessage() has been called
    lastSent,      \* history: the text of the latest sendMessage() call
    nStart,        \* history: number of start() calls
    terminated,    \* history: terminate() has been called
    threw,         \* history: the methods that threw synchronously
    content,       \* the markdown text handed to the markdown utilities
    instructions,  \* what parseInstructions(content) returned
    given,         \* the optional second argument of extractTargetContent: <<>> or <<instruction>>
    extracted,     \* what extractTargetContent(content, given) returned
    called,        \* history: the markdown utilities called so far
    failed,        \* history: the markdown utilities that threw
    argv,          \* the command invoked and, for generate, its mode
    pc,            \* position of the command handler
    logged,        \* what the handler reported through its logger
    exited,        \* the exit codes handed to process.exit
    sigintHandlers, \* listeners registered for SIGINT
    outputExists,  \* the file the command is to edit or generate exists
    written,       \* the writeMarkdownFile calls made by the command
    qCliChecks,    \* number of checkQCli() calls
    overwriteAnswers, \* the answers given to the overwrite prompt
    listed,        \* the instruction texts listed to the user
    customTemplates, \* config 'customTemplates': the name/path entries, in insertion order
    addCalls,      \* the addTemplate() calls made so far, one record per call
    removes,       \* number of removeTemplate() calls
    lastRemove     \* history: the latest removeTemplate() call and the error it threw

qVars == <<options, throws, prompt, spinner, orphaned, childProcess, stops, execaCalls,
           signals, killed, everSent, lastSent, nStart, terminated, threw>>
mdVars == <<content, instructions, given, extracted, called, failed>>
envVars == <<outputExists, written, qCliChecks, overwriteAnswers, listed>>
cmdVars == <<argv, pc, logged, exited, sigintHandlers, envVars>>
tmplVars == <<customTemplates, addCalls, removes, lastRemove>>
vars == <<qVars, mdVars, cmdVars, tmplVars>>

(* ------------------------------ values --------------------------------- *)

\* `undefined` exit code: execa's error of a spawn failure or a signal death,
\* and any error that is not execa's.
NoExitCode == -1

NoError == [message |-> "", code |-> NoExitCode]
NoPromptError == [message |-> "No prompt provided for Amazon Q", code |-> NoExitCode]
ExitedError(c) == [message |-> "Amazon Q process exited with code", code |-> c]
CallbackError == [message |-> "thrown by callback", code |-> NoExitCode]

\* One call of a callback: by stop() call id (0: by start()), with the code passed.
Signal(id, name, c) == [stop |-> id, sig |-> name, code |-> c]
Emit(bag, sigs) == bag (+) SetToBag(sigs)

\* `!this.prompt`: the empty string is falsy.
NoPromptMut(p) == FALSE
NoPrompt(p) == p = ""

\* `err.exitCode || 1`: undefined and 0 are falsy.
ExitCodeOr1Mut(c) == 1
ExitCodeOr1(c) == IF c = NoExitCode \/ c = 0 THEN 1 ELSE c

\* args = ['chat', '--no-interactive', '--trust-all-tools']; args.push(this.prompt)
ArgsMut(p) == <<"chat", "--no-interactive", "--trust-all-tools">>
\* Args that grants --trust-all-tools only to sessions with autoApprove set.
ArgsByAutoApprove(p) ==
    IF options.autoApprove
    THEN <<"chat", "--no-interactive", "--trust-all-tools", p>>
    ELSE <<"chat", "--no-interactive", p>>
Args(p) ==
    LET base == <<"chat", "--no-interactive", "--trust-all-tools">>
    IN IF p # "" THEN Append(base, p) ELSE base

ActiveSpinners == orphaned + (IF spinner = "spinning" THEN 1 ELSE 0)
Running == {i \in DOMAIN stops : stops[i].state = "running"}

(* ===================== Part 2: markdown utilities ====================== *)

TargetStartMarker == "<!-- qmims-target-start -->"
TargetEndMarker == "<!-- qmims-target-end -->"

\* The instruction comments of the texts, with the trimmed text each carries.
InstructionTexts ==
    "<!-- qmims:  Summarize  -->" :> "Summarize" @@ "<!-- qmims: Expand -->" :> "Expand"

\* The lines the texts are made of: an empty and a whitespace-only line, an
\* instruction comment, the two target markers, a comment that is not a qmims
\* one, and a line of ordinary content.
Lines ==
    {"", " ", TargetStartMarker, TargetEndMarker, "<!-- note -->", "text"}
    \cup DOMAIN InstructionTexts
Documents == UNION {[1..n -> Lines] : n \in 0..MaxLines}

\* `null`: no string.
Null == <<>>
\* `!content`: undefined, null and the empty string.
FalsyEmptyStringOnly(text) == text = <<"">>
Falsy(text) == text = <<>> \/ text = <<"">>
\* Splitting into lines a value that is no string is a TypeError.
SplitThrows(text) == text = <<>>
\* A blank or whitespace-only line.
IsBlank(line) == line \in {"", " "}
IsInstruction(line) == line \in DOMAIN InstructionTexts
\* lines.join('\n'): no lines make the empty string.
Join(ls) == IF ls = <<>> THEN <<"">> ELSE ls

\* A look-ahead that skips nothing.
SkipNothing(lines, j) == j
\* The first line at or after j that is not blank (Len + 1: none).
RECURSIVE SkipBlankLines(_, _)
SkipBlankLines(lines, j) ==
    IF j <= Len(lines) /\ IsBlank(lines[j]) THEN SkipBlankLines(lines, j + 1) ELSE j

\* The first line at or after k that is the given marker (Len + 1: none).
RECURSIVE FindMarker(_, _, _)
FindMarker(lines, marker, k) ==
    IF k <= Len(lines) /\ lines[k] # marker THEN FindMarker(lines, marker, k + 1) ELSE k

\* The first blank line at or after k (Len + 1: none).
RECURSIVE FindBlank(_, _)
FindBlank(lines, k) ==
    IF k <= Len(lines) /\ ~IsBlank(lines[k]) THEN FindBlank(lines, k + 1) ELSE k

\* ScanInstruction recording the end marker's own line as targetEnd.
ScanInstructionEndMarkerLine(lines, i) ==
    LET j == SkipBlankLines(lines, i + 1)
    IN IF j <= Len(lines) /\ lines[j] = TargetStartMarker
       THEN [instruction |-> InstructionTexts[lines[i]], lineNumber |-> i,
             targetStart |-> j,
             targetEnd |-> FindMarker(lines, TargetEndMarker, j + 1)]
       ELSE [instruction |-> InstructionTexts[lines[i]], lineNumber |-> i]

\* The record of the instruction comment on line i: the look-ahead skips
\* blank lines only; a start marker found there opens the target block, whose
\* lines are consumed up to the end marker (or the end of the text).
ScanInstruction(lines, i) ==
    LET j == SkipBlankLines(lines, i + 1)
    IN IF j <= Len(lines) /\ lines[j] = TargetStartMarker
       THEN [instruction |-> InstructionTexts[lines[i]], lineNumber |-> i,
             targetStart |-> j,
             targetEnd |-> FindMarker(lines, TargetEndMarker, j + 1) - 1]
       ELSE [instruction |-> InstructionTexts[lines[i]], lineNumber |-> i]

\* A scan that resumes after the target block of an instruction.
RECURSIVE ScanFromAfterBlock(_, _)
ScanFromAfterBlock(lines, i) ==
    IF i > Len(lines) THEN <<>>
    ELSE IF IsInstruction(lines[i])
         THEN LET r == ScanInstruction(lines, i)
              IN <<r>> \o ScanFromAfterBlock(lines,
                            IF "targetEnd" \in DOMAIN r THEN r.targetEnd + 1 ELSE i + 1)
         ELSE ScanFromAfterBlock(lines, i + 1)

RECURSIVE ScanFrom(_, _)
ScanFrom(lines, i) ==
    IF i > Len(lines) THEN <<>>
    ELSE IF IsInstruction(lines[i])
         THEN <<ScanInstruction(lines, i)>> \o ScanFrom(lines, i + 1)
         ELSE ScanFrom(lines, i + 1)

parseInstructions(text) == IF Falsy(text) THEN <<>> ELSE ScanFrom(text, 1)

HasTargets(instruction) == {"targetStart", "targetEnd"} \subseteq DOMAIN instruction
\* Target bounds that are present and within the text.
InBounds(text, instruction) ==
    /\ HasTargets(instruction)
    /\ instruction.targetStart \in 1..Len(text)
    /\ instruction.targetEnd \in 1..Len(text)

\* Mode A that returns the start marker's line too.
TargetLinesFromMarker(text, instruction) ==
    Join(SubSeq(text, instruction.targetStart, instruction.targetEnd))
\* Mode A: the lines targetStart + 1 .. targetEnd.
TargetLines(text, instruction) ==
    Join(SubSeq(text, instruction.targetStart + 1, instruction.targetEnd))

\* Mode B that looks for the end marker after the first start marker only.
MarkedBlockAfterStart(text) ==
    LET s == FindMarker(text, TargetStartMarker, 1)
        e == FindMarker(text, TargetEndMarker, s + 1)
    IN IF s > Len(text) \/ e > Len(text) THEN Null
       ELSE Join(SubSeq(text, s + 1, e - 1))
\* Mode B: the lines between the first start marker and the end marker after
\* it; null without a start marker, with an end marker before it, or without
\* an end marker after it.
MarkedBlock(text) ==
    LET s == FindMarker(text, TargetStartMarker, 1)
        e == FindMarker(text, TargetEndMarker, 1)
    IN IF s > Len(text) \/ e > Len(text) \/ e < s THEN Null
       ELSE Join(SubSeq(text, s + 1, e - 1))

\* Mode C that collects up to the end of the text.
ParagraphToEnd(text, instruction) ==
    LET first == SkipBlankLines(text, instruction.lineNumber + 1)
    IN IF first > Len(text) THEN Null ELSE SubSeq(text, first, Len(text))
\* Mode C: the paragraph after the instruction's line: leading blank lines
\* skipped, then the non-blank lines up to the next blank line or the end of
\* the text; null when no line is left to collect.
Paragraph(text, instruction) ==
    LET first == SkipBlankLines(text, instruction.lineNumber + 1)
    IN IF first > Len(text) THEN Null
       ELSE SubSeq(text, first, FindBlank(text, first) - 1)

\* arg is <<>> (no instruction given) or <<instruction>>.
extractTargetContent(text, arg) ==
    IF Falsy(text) THEN Null
    ELSE IF arg = <<>> THEN MarkedBlock(text)
    ELSE IF InBounds(text, arg[1]) THEN TargetLines(text, arg[1])
    ELSE Paragraph(text, arg[1])

\* The instructions a caller passes: those scanned from the text, the same
\* without target fields, and with the bounds of an earlier, longer text.
Arguments(text) ==
    LET n == Len(text)
        scanned == {parseInstructions(text)[k] : k \in DOMAIN parseInstructions(text)}
        plain == {[instruction |-> "Summarize", lineNumber |-> l] :
                      l \in {x.lineNumber : x \in scanned} \cup {1}}
        Stale(x, ts, te) == [instruction |-> x.instruction, lineNumber |-> x.lineNumber,
                             targetStart |-> ts, targetEnd |-> te]
    IN {<<>>} \cup {<<x>> : x \in scanned \cup plain
                                 \cup {Stale(y, n + 1, n + 2) : y \in plain}
                                 \cup {Stale(y, 1, n + 1) : y \in plain}}

\* No markdown utility has been called.
MarkdownIdle ==
    /\ instructions = <<>>
    /\ given = <<>>
    /\ extracted = Null
    /\ called = {}
    /\ failed = {}

\* A call of parseInstructions(content).
callParseInstructions ==
    /\ "parseInstructions" \notin called
    /\ called' = called \cup {"parseInstructions"}
    /\ IF ~Falsy(content) /\ SplitThrows(content)
       THEN failed' = failed \cup {"parseInstructions"} /\ UNCHANGED instructions
       ELSE instructions' = parseInstructions(content) /\ UNCHANGED failed
    /\ UNCHANGED <<content, given, extracted, qVars, cmdVars, tmplVars>>

\* A call of extractTargetContent(content) or extractTargetContent(content, instruction).
callExtractTargetContent(arg) ==
    /\ "extractTargetContent" \notin called
    /\ called' = called \cup {"extractTargetContent"}
    /\ given' = arg
    /\ IF ~Falsy(content) /\ SplitThrows(content)
       THEN failed' = failed \cup {"extractTargetContent"} /\ UNCHANGED extracted
       ELSE extracted' = extractTargetContent(content, arg) /\ UNCHANGED failed
    /\ UNCHANGED <<content, instructions, qVars, cmdVars, tmplVars>>

(* ==================== Part 3: command handlers ========================= *)

\* The invocations: edit, and generate in each of its modes.
\* argv of edit: --yes, --dry-run; of generate also --force and
\* --list-available-templates.
Commands ==
    {[command |-> "edit", mode |-> "edit", dryRun |-> d, yes |-> y,
      force |-> FALSE, listAvailableTemplates |-> FALSE] : d \in BOOLEAN, y \in BOOLEAN}
    \cup
    {[command |-> "generate", mode |-> m, dryRun |-> d, yes |-> y,
      force |-> f, listAvailableTemplates |-> l] :
        m \in {"auto", "template", "instruct"},
        d \in BOOLEAN, y \in BOOLEAN, f \in BOOLEAN, l \in BOOLEAN}

\* The instruction files of generate's instruct mode: without instructions,
\* with one, and with two in either order or twice the same.
InstructionFiles ==
    {<<"text">>,
     <<"<!-- qmims:  Summarize  -->">>,
     <<"<!-- qmims:  Summarize  -->", "text", "<!-- qmims: Expand -->">>,
     <<"<!-- qmims: Expand -->", "<!-- qmims:  Summarize  -->">>,
     <<"<!-- qmims: Expand -->", "<!-- qmims: Expand -->">>}

\* `...edit based on the following instructions: ${instruction}.`
InstructPrompt(instruction) ==
    CASE instruction = "Summarize" ->
             "I have a README.md file that I'd like you to edit based on the following instructions: Summarize."
      [] instruction = "Expand" ->
             "I have a README.md file that I'd like you to edit based on the following instructions: Expand."

\* A handler whose instruct prompt is built from the last instruction.
PromptOfLastInstruction(a) ==
    IF a.mode = "instruct" THEN InstructPrompt(instructions[Len(instructions)].instruction)
    ELSE "I need you to generate a new README.md file for"
\* The prompt the handler stores with sendMessage.
PromptOf(a) ==
    CASE a.mode = "edit" -> "I need you to generate a new README.md file for"
      [] a.mode = "auto" -> "Please analyze this project and generate a comprehensive README.md file."
      [] a.mode = "template" -> "I've created a README.md file with a template structure."
      [] a.mode = "instruct" -> InstructPrompt(instructions[1].instruction)

Log(level, text) == [level |-> level, text |-> text]
\* logger.success(...) after `await qChat.stop()`
SuccessLog(a) ==
    CASE a.mode = "edit" -> Log("success", "Instructions processed successfully.")
      [] a.mode = "auto" -> Log("success", "Successfully generated README.md")
      [] a.mode = "template" -> Log("success", "Template filling completed successfully.")
      [] a.mode = "instruct" -> Log("success", "Instruction processing completed successfully.")
\* logger.error(...) of the catch block around `await qChat.stop()`
ErrorLog(a) ==
    CASE a.mode = "edit" -> Log("error", "Error processing instructions")
      [] a.mode = "auto" -> Log("error", "Error generating README")
      [] a.mode = "template" -> Log("error", "Error filling template")
      [] a.mode = "instruct" -> Log("error", "Error processing instructions")

\* Where the handler is after the try/catch around `await qChat.stop()`:
\* edit's handler returns, generate's handler goes on after its mode function.
AfterSession(a) == IF a.command = "generate" THEN "thanks" ELSE "returned"

\* A process.exit that returns to its caller.
processExitReturns(next) == next
\* process.exit(code) ends the program: the statement after it is not reached.
processExit(next) == "exited"

\* Handlers that reach their dry-run return only after the other steps.
StepsDryRunLast(a) ==
    IF a.command = "edit"
    THEN <<"exists", "checkQCli", "dryRun", "created">>
    ELSE <<"exists", "list", "checkQCli", "overwrite", "mode", "dryRun", "created">>
\* The steps of a handler, in the order of its code; "created" is the
\* construction of the QChatProcess.
Steps(a) ==
    IF a.command = "edit"
    THEN <<"exists", "dryRun", "checkQCli", "created">>
    ELSE <<"exists", "list", "checkQCli", "overwrite", "dryRun", "mode", "created">>
StepAfter(a, step) ==
    Steps(a)[(CHOOSE i \in DOMAIN Steps(a) : Steps(a)[i] = step) + 1]

\* No command is running.
CommandIdle ==
    /\ argv = [command |-> "none", mode |-> "none", dryRun |-> FALSE, yes |-> FALSE,
               force |-> FALSE, listAvailableTemplates |-> FALSE]
    /\ pc = "idle"
    /\ logged = {}
    /\ exited = <<>>
    /\ sigintHandlers = 0
    /\ outputExists = FALSE
    /\ written = <<>>
    /\ qCliChecks = 0
    /\ overwriteAnswers = <<>>
    /\ listed = <<>>

(* ===================== Part 4: template registry ======================= *)

BuiltInNames == <<"basic", "detailed", "minimal", "library", "service">>
BUILT_IN_TEMPLATES ==
    [i \in DOMAIN BuiltInNames |->
        [name |-> BuiltInNames[i], path |-> "templates", isBuiltIn |-> TRUE]]

\* Template names and source paths handed to the registry: a built-in name
\* and two others.
TemplateNames == {"basic", "mine", "team"}
TemplatePaths == {"/t/a.md", "/t/b.md"}

\* Object.entries(customTemplates) as templates that are not built in.
getCustomTemplates ==
    [i \in DOMAIN customTemplates |->
        [name |-> customTemplates[i].name, path |-> customTemplates[i].path,
         isBuiltIn |-> FALSE]]

listTemplates == BUILT_IN_TEMPLATES \o getCustomTemplates

\* A lookup among the built-in templates only.
getTemplateBuiltInOnly(name) ==
    SelectSeq(BUILT_IN_TEMPLATES, LAMBDA t : t.name = name)
\* listTemplates().find(...): <<>> (undefined) or <<template>>.
getTemplate(name) ==
    LET found == SelectSeq(listTemplates, LAMBDA t : t.name = name)
    IN IF found = <<>> THEN <<>> ELSE <<found[1]>>

\* customTemplates[name] = sourcePath: an existing key keeps its place.
SetEntry(entries, name, sourcePath) ==
    IF \E i \in DOMAIN entries : entries[i].name = name
    THEN [i \in DOMAIN entries |->
             IF entries[i].name = name THEN [name |-> name, path |-> sourcePath]
             ELSE entries[i]]
    ELSE Append(entries, [name |-> name, path |-> sourcePath])
\* delete customTemplates[name]
DeleteEntry(entries, name) == SelectSeq(entries, LAMBDA e : e.name # name)

\* No template call has been made on the default config.
TemplatesIdle ==
    /\ customTemplates = <<>>
    /\ addCalls = <<>>
    /\ removes = 0
    /\ lastRemove = [name |-> "", error |-> ""]

\* addTemplate(name, sourcePath) up to its first await: a name in use rejects
\* the promise.  awaited: the caller awaits the promise.  exists records what
\* fs.pathExists(sourcePath) answers once it has been asked.
addTemplateCalled(name, sourcePath, awaited) ==
    /\ Len(addCalls) < MaxAdds
    /\ addCalls' = Append(addCalls,
           [name |-> name, path |-> sourcePath, awaited |-> awaited, exists |-> "unasked",
            state |-> IF getTemplate(name) # <<>> THEN "rejected" ELSE "pending",
            error |-> IF getTemplate(name) # <<>> THEN "already exists" ELSE ""])
    /\ UNCHANGED <<customTemplates, removes, lastRemove>>

\* addTemplate resumes after `await fs.pathExists(sourcePath)`.
addTemplateResumes(i, exists) ==
    /\ i \in DOMAIN addCalls
    /\ addCalls[i].state = "pending"
    /\ IF exists
       THEN /\ customTemplates' = SetEntry(customTemplates, addCalls[i].name, addCalls[i].path)
            /\ addCalls' = [addCalls EXCEPT ![i].state = "resolved", ![i].exists = "yes"]
       ELSE /\ addCalls' = [addCalls EXCEPT ![i].state = "rejected", ![i].exists = "no",
                                            ![i].error = "does not exist"]
            /\ UNCHANGED customTemplates
    /\ UNCHANGED <<removes, lastRemove>>

\* removeTemplate that does not look at isBuiltIn.
removeTemplateAnyKind(name) ==
    /\ removes < MaxRemoves
    /\ removes' = removes + 1
    /\ IF getTemplate(name) = <<>>
       THEN /\ lastRemove' = [name |-> name, error |-> "does not exist"]
            /\ UNCHANGED customTemplates
       ELSE /\ lastRemove' = [name |-> name, error |-> ""]
            /\ customTemplates' = DeleteEntry(customTemplates, name)
    /\ UNCHANGED addCalls

removeTemplate(name) ==
    /\ removes < MaxRemoves
    /\ removes' = removes + 1
    /\ IF getTemplate(name) = <<>>
       THEN /\ lastRemove' = [name |-> name, error |-> "does not exist"]
            /\ UNCHANGED customTemplates
       ELSE IF getTemplate(name)[1].isBuiltIn
       THEN /\ lastRemove' = [name |-> name, error |-> "Cannot remove built-in template"]
            /\ UNCHANGED customTemplates
       ELSE /\ lastRemove' = [name |-> name, error |-> ""]
            /\ customTemplates' = DeleteEntry(customTemplates, name)
    /\ UNCHANGED addCalls

(* ------------------------------ Init ----------------------------------- *)

InitInstance ==
    /\ options \in Options
    /\ prompt = ""
    /\ spinner = "null"
    /\ orphaned = 0
    /\ childProcess = 0
    /\ stops = <<>>
    /\ execaCalls = <<>>
    /\ signals = EmptyBag
    /\ killed = {}
    /\ everSent = FALSE
    /\ lastSent = ""
    /\ nStart = 0
    /\ terminated = FALSE
    /\ threw = {}

\* The callbacks the command handlers pass only log: they return normally.
Init ==
    /\ InitInstance /\ throws = {}
    /\ content = <<>> /\ MarkdownIdle /\ CommandIdle /\ TemplatesIdle

\* Any caller-supplied callbacks: each of them returns or throws.
InitAnyCallbacks ==
    /\ InitInstance /\ throws \in SUBSET EventNames
    /\ options.cwd = "/proj" /\ ~options.verbose
    /\ content = <<>> /\ MarkdownIdle /\ CommandIdle /\ TemplatesIdle

\* The markdown utilities given any text; the QChatProcess instance stays as constructed.
InitMarkdown ==
    /\ InitInstance /\ throws = {} /\ options.cwd = "/proj" /\ ~options.verbose
    /\ content \in Documents
    /\ MarkdownIdle
    /\ CommandIdle
    /\ TemplatesIdle

\* A command handler is entered with its argv; the QChatProcess it will
\* construct takes autoApprove from --yes and callbacks that only log.
\* content is the instruction file of generate's instruct mode.
InitCommand ==
    /\ InitInstance /\ throws = {}
    /\ argv \in Commands
    /\ options.cwd = "/proj" /\ options.autoApprove = argv.yes
    /\ content \in (IF argv.mode = "instruct" THEN InstructionFiles ELSE {<<>>})
    /\ MarkdownIdle
    /\ pc = "exists"
    /\ logged = {}
    /\ exited = <<>>
    /\ sigintHandlers = 0
    /\ outputExists \in BOOLEAN
    /\ written = <<>>
    /\ qCliChecks = 0
    /\ overwriteAnswers = <<>>
    /\ listed = <<>>
    /\ TemplatesIdle

\* The `templates` command entered on the default config; the registry is
\* also called directly.
InitTemplates ==
    /\ InitInstance /\ throws = {} /\ options.cwd = "/proj" /\ ~options.verbose
    /\ content = <<>> /\ MarkdownIdle
    /\ TemplatesIdle
    /\ argv = [command |-> "templates", mode |-> "add", dryRun |-> FALSE, yes |-> FALSE,
               force |-> FALSE, listAvailableTemplates |-> FALSE]
    /\ pc = "templates"
    /\ logged = {}
    /\ exited = <<>>
    /\ sigintHandlers = 0
    /\ outputExists = FALSE
    /\ written = <<>>
    /\ qCliChecks = 0
    /\ overwriteAnswers = <<>>
    /\ listed = <<>>

(* ------------------------------ start() -------------------------------- *)

\* start() as in the long-lived-session variant: it spawns the worker itself.
startMut ==
    /\ nStart < MaxStarts
    /\ nStart' = nStart + 1
    /\ orphaned' = IF spinner = "spinning" THEN orphaned + 1 ELSE orphaned
    /\ spinner' = "spinning"
    /\ signals' = Emit(signals, {Signal(0, "onOutput", NoExitCode)})
    /\ threw' = IF "onOutput" \in throws THEN threw \cup {"start"} ELSE threw
    /\ execaCalls' = Append(execaCalls,
            [stop |-> 0, command |-> "q", args |-> <<"chat">>,
             cwd |-> options.cwd, stdio |-> "pipe", shell |-> FALSE])
    /\ UNCHANGED <<options, throws, prompt, childProcess, stops, killed,
                   everSent, lastSent, terminated>>

start ==
    /\ nStart < MaxStarts
    /\ nStart' = nStart + 1
    /\ orphaned' = IF spinner = "spinning" THEN orphaned + 1 ELSE orphaned
    /\ spinner' = "spinning"
    /\ signals' = Emit(signals, {Signal(0, "onOutput", NoExitCode)})
    /\ threw' = IF "onOutput" \in throws THEN threw \cup {"start"} ELSE threw
    /\ UNCHANGED <<options, throws, prompt, childProcess, stops, execaCalls, killed,
                   everSent, lastSent, terminated>>

(* --------------------------- sendMessage() ----------------------------- *)

\* sendMessage() that keeps a prompt already stored (first write wins).
sendMessageMut(message) ==
    /\ prompt' = IF prompt = "" THEN message ELSE prompt
    /\ everSent' = TRUE
    /\ lastSent' = message
    /\ UNCHANGED <<options, throws, spinner, orphaned, childProcess, stops, execaCalls,
                   signals, killed, nStart, terminated, threw>>

sendMessage(message) ==
    /\ prompt' = message
    /\ everSent' = TRUE
    /\ lastSent' = message
    /\ UNCHANGED <<options, throws, spinner, orphaned, childProcess, stops, execaCalls,
                   signals, killed, nStart, terminated, threw>>

(* ------------------------------ stop() --------------------------------- *)

\* The synchronous part of stop(): up to the throw of executeCommand, or up to
\* the `await execa(...)`.  spawned = FALSE is execa failing to spawn 'q'.
stop(spawned) ==
    /\ Len(stops) < MaxStops
    /\ LET id == Len(stops) + 1
           call == [state |-> "running", text |-> lastSent,
                    how |-> "pending", exitCode |-> NoExitCode, err |-> NoError]
       IN IF NoPrompt(prompt)
          THEN /\ stops' = Append(stops, [call EXCEPT !.state = "rejected",
                                                      !.err = NoPromptError])
               /\ spinner' = "null"
               /\ UNCHANGED execaCalls
          ELSE /\ stops' = Append(stops,
                       [call EXCEPT !.state = IF spawned THEN "running" ELSE "failing"])
               /\ spinner' = "stopped"
               /\ execaCalls' = Append(execaCalls,
                       [stop |-> id, command |-> "q", args |-> Args(prompt),
                        cwd |-> options.cwd, stdio |-> "inherit", shell |-> FALSE])
    /\ UNCHANGED <<options, throws, prompt, orphaned, childProcess, signals, killed,
                   everSent, lastSent, nStart, terminated, threw>>

\* this.events.onExit(0) of the try block
SuccessSignalsMut(id) == {}
SuccessSignals(id) == {Signal(id, "onExit", 0)}

\* The catch block's calls of the callbacks, for the caught error's exitCode.
CatchSignals(id, errCode) ==
    {Signal(id, "onError", NoExitCode)}
    \cup (IF "onError" \in throws THEN {}
          ELSE {Signal(id, "onExit", ExitCodeOr1(errCode))})

\* What the catch block throws.
CatchError(errCode) ==
    IF throws \cap {"onError", "onExit"} # {} THEN CallbackError
    ELSE ExitedError(ExitCodeOr1(errCode))

\* The execa promise settles and executeCommand resumes after its await: the
\* worker has ended with an exit code or by a signal (no code), or it could not
\* be spawned (no code).  code = 0 resolves the promise, anything else rejects.
executeCommandResumes(id, how, code) ==
    /\ id \in DOMAIN stops
    /\ \/ stops[id].state = "running" /\ how = "exit" /\ code \in ExitCodes
       \/ stops[id].state = "running" /\ how = "signal" /\ code = NoExitCode
       \/ stops[id].state = "failing" /\ how = "spawnError" /\ code = NoExitCode
    /\ LET ok == code = 0
           caught == ~ok \/ "onExit" \in throws
           pre == IF ok THEN Emit(signals, SuccessSignals(id)) ELSE signals
           errCode == IF ok THEN NoExitCode ELSE code
           ended == [stops[id] EXCEPT !.how = how, !.exitCode = code]
       IN IF ~caught
          THEN /\ signals' = pre
               /\ stops' = [stops EXCEPT ![id] = [ended EXCEPT !.state = "resolved"]]
               /\ UNCHANGED spinner
          ELSE /\ signals' = Emit(pre, CatchSignals(id, errCode))
               /\ stops' = [stops EXCEPT ![id] = [ended EXCEPT !.state = "rejected",
                                                               !.err = CatchError(errCode)]]
               /\ spinner' = IF throws \cap {"onError", "onExit"} = {}
                                /\ spinner # "null"
                             THEN "stopped" ELSE spinner
    /\ UNCHANGED <<options, throws, prompt, orphaned, childProcess, execaCalls, killed,
                   everSent, lastSent, nStart, terminated, threw>>

(* ---------------------------- terminate() ------------------------------ *)

\* terminate() that also clears the stored prompt.
terminateMut ==
    /\ killed' = IF childProcess # 0 THEN killed \cup {childProcess} ELSE killed
    /\ spinner' = "null"
    /\ terminated' = TRUE
    /\ prompt' = ""
    /\ UNCHANGED <<options, throws, orphaned, childProcess, stops, execaCalls,
                   signals, everSent, lastSent, nStart, threw>>

terminate ==
    /\ killed' = IF childProcess # 0 THEN killed \cup {childProcess} ELSE killed
    /\ spinner' = "null"
    /\ terminated' = TRUE
    /\ UNCHANGED <<options, throws, prompt, orphaned, childProcess, stops, execaCalls,
                   signals, everSent, lastSent, nStart, threw>>

(* ----------------------- command handler steps ------------------------ *)

\* The catch block of generate's handler around its mode function:
\* logger.error(message); process.exit(1).
ModeThrows(message) ==
    /\ logged' = logged \cup {Log("error", message)}
    /\ exited' = Append(exited, 1)
    /\ pc' = processExit("returned")

\* edit: the file, or else a README in its directory, exists; generate: the
\* project directory exists.  Otherwise an error and process.exit(1).
handlerExists(found) ==
    /\ pc = "exists"
    /\ (argv.command = "edit" /\ outputExists) => found
    /\ IF found
       THEN /\ pc' = StepAfter(argv, "exists")
            /\ UNCHANGED <<logged, exited>>
       ELSE /\ logged' = logged \cup {Log("error", "does not exist")}
            /\ exited' = Append(exited, 1)
            /\ pc' = processExit(StepAfter(argv, "exists"))
    /\ UNCHANGED <<argv, sigintHandlers, envVars, qVars, mdVars, tmplVars>>

\* generate --list-available-templates lists the templates and returns.
handlerList ==
    /\ pc = "list"
    /\ IF argv.listAvailableTemplates
       THEN /\ logged' = logged \cup {Log("info", "Available Templates:")}
            /\ pc' = "returned"
       ELSE /\ pc' = StepAfter(argv, "list")
            /\ UNCHANGED logged
    /\ UNCHANGED <<argv, exited, sigintHandlers, envVars, qVars, mdVars, tmplVars>>

\* checkQCli(), which generate skips in a dry run; unavailable: an error and
\* process.exit(1).
handlerCheckQCli(available) ==
    /\ pc = "checkQCli"
    /\ IF argv.command = "generate" /\ argv.dryRun
       THEN /\ pc' = StepAfter(argv, "checkQCli")
            /\ UNCHANGED <<logged, exited, qCliChecks>>
       ELSE /\ qCliChecks' = qCliChecks + 1
            /\ IF available
               THEN /\ pc' = StepAfter(argv, "checkQCli")
                    /\ UNCHANGED <<logged, exited>>
               ELSE /\ logged' = logged \cup {Log("error", "Amazon Q Developer CLI is not available")}
                    /\ exited' = Append(exited, 1)
                    /\ pc' = processExit(StepAfter(argv, "checkQCli"))
    /\ UNCHANGED <<argv, sigintHandlers, outputExists, written, overwriteAnswers, listed,
                   qVars, mdVars, tmplVars>>

\* A handler that never asks before overwriting.
AsksOverwriteNever(a) == FALSE
\* `fileExists && !force && !dryRun && !yes`
AsksOverwrite(a) == outputExists /\ ~a.force /\ ~a.dryRun /\ ~a.yes

\* The overwrite prompt of generate and the user's answer to it.
handlerOverwrite(answer) ==
    /\ pc = "overwrite"
    /\ IF AsksOverwrite(argv)
       THEN /\ overwriteAnswers' = Append(overwriteAnswers, answer)
            /\ IF answer
               THEN pc' = StepAfter(argv, "overwrite") /\ UNCHANGED logged
               ELSE /\ logged' = logged \cup {Log("warn", "Generation cancelled")}
                    /\ pc' = "returned"
       ELSE /\ pc' = StepAfter(argv, "overwrite")
            /\ UNCHANGED <<logged, overwriteAnswers>>
    /\ UNCHANGED <<argv, exited, sigintHandlers, outputExists, written, qCliChecks, listed,
                   qVars, mdVars, tmplVars>>

\* Dry run: the actions that would be taken are described and the handler returns.
handlerDryRun ==
    /\ pc = "dryRun"
    /\ IF argv.dryRun
       THEN /\ logged' = logged \cup {Log("info", "--- DRY RUN MODE - No changes will be made ---")}
            /\ pc' = "returned"
       ELSE /\ pc' = StepAfter(argv, "dryRun")
            /\ UNCHANGED logged
    /\ UNCHANGED <<argv, exited, sigintHandlers, envVars, qVars, mdVars, tmplVars>>

\* generateAuto up to its QChatProcess: the initial README is written.
generateAuto ==
    /\ argv.mode = "auto"
    /\ written' = Append(written, "# Project README")
    /\ outputExists' = TRUE
    /\ pc' = StepAfter(argv, "mode")
    /\ UNCHANGED <<logged, exited, listed, instructions, called>>

\* generateTemplate up to its QChatProcess: an unknown template throws, else
\* the template's content is written.
generateTemplate(templateFound) ==
    /\ argv.mode = "template"
    /\ IF templateFound
       THEN /\ written' = Append(written, "template content")
            /\ outputExists' = TRUE
            /\ pc' = StepAfter(argv, "mode")
            /\ UNCHANGED <<logged, exited>>
       ELSE /\ ModeThrows("Template not found")
            /\ UNCHANGED <<written, outputExists>>
    /\ UNCHANGED <<listed, instructions, called>>

\* generateInstruct up to its QChatProcess.  instructFile: "none" (the README
\* itself is the instruction file), "missing" or "given".  A missing or
\* unreadable instruction file throws, and so does one without instructions;
\* else the instructions are listed and the initial README is written unless
\* the README is the instruction file and exists.
generateInstruct(instructFile) ==
    /\ argv.mode = "instruct"
    /\ IF instructFile = "missing" \/ (instructFile = "none" /\ ~outputExists)
       THEN /\ ModeThrows("Instruction file not found")
            /\ UNCHANGED <<written, outputExists, listed, instructions, called>>
       ELSE /\ instructions' = parseInstructions(content)
            /\ called' = called \cup {"parseInstructions"}
            /\ IF Len(instructions') = 0
               THEN /\ ModeThrows("No embedded instructions found")
                    /\ UNCHANGED <<written, outputExists, listed>>
               ELSE /\ listed' = [k \in DOMAIN instructions' |-> instructions'[k].instruction]
                    /\ IF ~outputExists \/ instructFile # "none"
                       THEN /\ written' = Append(written, "# Project README")
                            /\ outputExists' = TRUE
                       ELSE UNCHANGED <<written, outputExists>>
                    /\ pc' = StepAfter(argv, "mode")
                    /\ UNCHANGED <<logged, exited>>

\* The mode function of generate, up to the construction of its QChatProcess.
handlerMode(templateFound, instructFile) ==
    /\ pc = "mode"
    /\ \/ generateAuto
       \/ generateTemplate(templateFound)
       \/ generateInstruct(instructFile)
    /\ UNCHANGED <<argv, sigintHandlers, qCliChecks, overwriteAnswers,
                   content, given, extracted, failed, qVars, tmplVars>>

\* qChat.start()
handlerStart ==
    /\ pc = "created"
    /\ start
    /\ pc' = "started"
    /\ UNCHANGED <<argv, logged, exited, sigintHandlers, envVars, mdVars, tmplVars>>

\* qChat.sendMessage(prompt)
handlerSendMessage ==
    /\ pc = "started"
    /\ sendMessage(PromptOf(argv))
    /\ pc' = "prompted"
    /\ UNCHANGED <<argv, logged, exited, sigintHandlers, envVars, mdVars, tmplVars>>

\* process.once('SIGINT', sigintHandler), then qChat.stop() up to its await.
handlerAwaitStop(spawned) ==
    /\ pc = "prompted"
    /\ sigintHandlers' = sigintHandlers + 1
    /\ stop(spawned)
    /\ pc' = IF NoPrompt(prompt) THEN "settled" ELSE "awaiting"
    /\ UNCHANGED <<argv, logged, exited, envVars, mdVars, tmplVars>>

\* The worker ends while the handler awaits stop(): stop() resolves or rejects.
handlerStopSettles(how, code) ==
    /\ pc = "awaiting"
    /\ executeCommandResumes(Len(stops), how, code)
    /\ pc' = "settled"
    /\ UNCHANGED <<argv, logged, exited, sigintHandlers, envVars, mdVars, tmplVars>>

\* The handler resumes after `await qChat.stop()`: success is logged, or the
\* catch block logs the error and calls process.exit(1).
handlerResumes ==
    /\ pc = "settled"
    /\ IF stops[Len(stops)].state = "resolved"
       THEN /\ logged' = logged \cup {SuccessLog(argv)}
            /\ pc' = AfterSession(argv)
            /\ UNCHANGED exited
       ELSE /\ logged' = logged \cup {ErrorLog(argv)}
            /\ exited' = Append(exited, 1)
            /\ pc' = processExit(AfterSession(argv))
    /\ UNCHANGED <<argv, sigintHandlers, envVars, qVars, mdVars, tmplVars>>

\* generate's handler after its mode function returned.
handlerThanks ==
    /\ pc = "thanks"
    /\ logged' = logged \cup {Log("success", "Thank you for using qmims!")}
    /\ pc' = "returned"
    /\ UNCHANGED <<argv, exited, sigintHandlers, envVars, qVars, mdVars, tmplVars>>

\* A SIGINT listener added with process.on: it stays registered when run.
sigintHandlerOn ==
    /\ pc = "awaiting"
    /\ sigintHandlers > 0
    /\ logged' = logged \cup {Log("warn", "interrupted by user")}
    /\ terminate
    /\ exited' = Append(exited, 0)
    /\ pc' = processExit("awaiting")
    /\ UNCHANGED <<argv, sigintHandlers, envVars, mdVars, tmplVars>>

\* SIGINT while the handler awaits stop(): the once-listener is removed and
\* run: it warns, calls qChat.terminate() and process.exit(0).
sigintHandler ==
    /\ pc = "awaiting"
    /\ sigintHandlers > 0
    /\ sigintHandlers' = sigintHandlers - 1
    /\ logged' = logged \cup {Log("warn", "interrupted by user")}
    /\ terminate
    /\ exited' = Append(exited, 0)
    /\ pc' = processExit("awaiting")
    /\ UNCHANGED <<argv, envVars, mdVars, tmplVars>>

(* ----------------------- templates command steps ---------------------- *)

\* The registry is called by a caller that awaits each call before the next
\* one (as the earlier runs of the program and the tests do), before the
\* command of this run acts.
CallerReady ==
    /\ pc = "templates"
    /\ \A i \in DOMAIN addCalls : addCalls[i].state # "pending"

\* `templates add <name> <path>`: addTemplate(...) is called and not awaited,
\* then success is logged and the handler returns.
templatesAdd(name, sourcePath) ==
    /\ CallerReady
    /\ addTemplateCalled(name, sourcePath, FALSE)
    /\ logged' = logged \cup {Log("success", "Added template")}
    /\ pc' = "returned"
    /\ UNCHANGED <<argv, exited, sigintHandlers, envVars, qVars, mdVars>>

\* The rejection of a promise nobody awaits ends the program: node (>= 18)
\* prints the error and exits with code 1.
unhandledRejection ==
    /\ pc = "returned"
    /\ \E i \in DOMAIN addCalls : ~addCalls[i].awaited /\ addCalls[i].state = "rejected"
    /\ exited' = Append(exited, 1)
    /\ pc' = processExit("returned")
    /\ UNCHANGED <<argv, logged, sigintHandlers, envVars, qVars, mdVars, tmplVars>>

NextTemplates ==
    \/ \E name \in TemplateNames : \E sourcePath \in TemplatePaths :
           CallerReady /\ addTemplateCalled(name, sourcePath, TRUE)
                       /\ UNCHANGED <<qVars, mdVars, cmdVars>>
    \/ \E i \in DOMAIN addCalls : \E exists \in BOOLEAN :
           pc # "exited" /\ addTemplateResumes(i, exists)
                         /\ UNCHANGED <<qVars, mdVars, cmdVars>>
    \/ \E name \in TemplateNames :
           CallerReady /\ removeTemplate(name) /\ UNCHANGED <<qVars, mdVars, cmdVars>>
    \/ \E name \in TemplateNames : \E sourcePath \in TemplatePaths :
           templatesAdd(name, sourcePath)
    \/ unhandledRejection

SpecTemplates == InitTemplates /\ [][NextTemplates]_vars

(* --------------------------- specification ----------------------------- *)

Next ==
    \/ start /\ UNCHANGED <<mdVars, cmdVars, tmplVars>>
    \/ \E message \in Texts : sendMessage(message) /\ UNCHANGED <<mdVars, cmdVars, tmplVars>>
    \/ \E spawned \in BOOLEAN : stop(spawned) /\ UNCHANGED <<mdVars, cmdVars, tmplVars>>
    \/ \E id \in DOMAIN stops : \E how \in {"exit", "signal", "spawnError"} :
           \E code \in ExitCodes \cup {NoExitCode} :
               executeCommandResumes(id, how, code) /\ UNCHANGED <<mdVars, cmdVars, tmplVars>>
    \/ terminate /\ UNCHANGED <<mdVars, cmdVars, tmplVars>>

NextMarkdown ==
    \/ callParseInstructions
    \/ \E arg \in Arguments(content) : callExtractTargetContent(arg)

Spec == Init /\ [][Next]_vars

SpecAnyCallbacks == InitAnyCallbacks /\ [][Next]_vars

SpecMarkdown == InitMarkdown /\ [][NextMarkdown]_vars

NextCommand ==
    \/ \E found \in BOOLEAN : handlerExists(found)
    \/ handlerList
    \/ \E available \in BOOLEAN : handlerCheckQCli(available)
    \/ \E answer \in BOOLEAN : handlerOverwrite(answer)
    \/ handlerDryRun
    \/ \E templateFound \in BOOLEAN : \E instructFile \in {"none", "missing", "given"} :
           handlerMode(templateFound, instructFile)
    \/ handlerStart
    \/ handlerSendMessage
    \/ \E spawned \in BOOLEAN : handlerAwaitStop(spawned)
    \/ \E how \in {"exit", "signal", "spawnError"} :
           \E code \in ExitCodes \cup {NoExitCode} : handlerStopSettles(how, code)
    \/ handlerResumes
    \/ handlerThanks
    \/ sigintHandler

SpecCommand == InitCommand /\ [][NextCommand]_vars

(* ------------------------------ claims --------------------------------- *)

\* Number of calls of callback `name` made by stop() call `id`, whatever the code passed.
SignalCount(id, name) ==
    LET S == {s \in BagToSet(signals) : s.stop = id /\ s.sig = name}
    IN IF S = {} THEN 0 ELSE BagCardinality([s \in S |-> CopiesIn(s, signals)])

FixedArgs == <<"chat", "--no-interactive", "--trust-all-tools">>
SpawnsOf(id) == {k \in DOMAIN execaCalls : execaCalls[k].stop = id}
Settled(i) == stops[i].how # "pending"

C2_FailureSignalledOnce ==
    \A i \in DOMAIN stops :
        /\ stops[i].state \in {"running", "failing"} =>
               SignalCount(i, "onError") = 0 /\ SignalCount(i, "onExit") = 0
        /\ (Settled(i) /\ ~(stops[i].how = "exit" /\ stops[i].exitCode = 0)) =>
               LET c == IF stops[i].how = "exit" THEN stops[i].exitCode ELSE 1
               IN /\ stops[i].state = "rejected"
                  /\ SignalCount(i, "onError") = 1
                  /\ SignalCount(i, "onExit") = 1
                  /\ CopiesIn(Signal(i, "onExit", c), signals) = 1
                  /\ stops[i].err = ExitedError(c)

C2_Witness ==
    \E i, j \in DOMAIN stops :
        /\ stops[i].how = "exit" /\ stops[i].exitCode = 2 /\ stops[i].state = "rejected"
        /\ stops[j].how = "spawnError" /\ stops[j].state = "rejected"

\* C3: a stop() call whose worker exited with code 0 resolved, called
\* onExit(0) exactly once, made no other onExit call and no onError call.
C3_SuccessResolves ==
    \A i \in DOMAIN stops :
        (stops[i].how = "exit" /\ stops[i].exitCode = 0) =>
            /\ stops[i].state = "resolved"
            /\ stops[i].err = NoError
            /\ CopiesIn(Signal(i, "onExit", 0), signals) = 1
            /\ SignalCount(i, "onExit") = 1
            /\ SignalCount(i, "onError") = 0

C3_Witness ==
    \E i \in DOMAIN stops :
        stops[i].how = "exit" /\ stops[i].exitCode = 0 /\ stops[i].state = "resolved"

\* C4: a terminate() call made while a spawned worker is running sends kill
\* to every running worker.  (Stated for the first terminate() call; a later
\* one that finds no spinner changes no variable of the instance.)
C4_TerminateKillsWorker ==
    [][(~terminated /\ terminated' /\ Running # {}) => Running \subseteq killed']_vars

\* C5: at most one worker process is running at any moment.
C5_AtMostOneWorker ==
    Cardinality(Running) <= 1

\* C6: at the moment a worker is spawned (the step that starts a running
\* worker) no ora spinner is spinning.
C6_NoSpinnerAtSpawn ==
    [][(Running' \ Running) # {} => ActiveSpinners' = 0]_vars

C8_AnySentTextSpawns ==
    [][(everSent /\ Len(stops') = Len(stops) + 1) =>
           /\ stops'[Len(stops')].err # NoPromptError
           /\ Len(execaCalls') = Len(execaCalls) + 1
           /\ execaCalls'[Len(execaCalls')].args = Append(FixedArgs, lastSent)]_vars

\* C8 amended: a stop() call raises the no-prompt error exactly when the text
\* stored at the call is the empty string (no sendMessage() call yet, or the
\* latest one passed ""), and then execa is not invoked; when the latest
\* sendMessage() passed a non-empty text, the call invokes execa once, with
\* that text as the final argument.
C8_NoPromptIffEmpty ==
    \A i \in DOMAIN stops :
        /\ stops[i].err = NoPromptError <=> stops[i].text = ""
        /\ stops[i].text = "" => SpawnsOf(i) = {}
        /\ stops[i].text # "" =>
               /\ Cardinality(SpawnsOf(i)) = 1
               /\ \A k \in SpawnsOf(i) :
                      /\ Len(execaCalls[k].args) = 4
                      /\ execaCalls[k].args[4] = stops[i].text

\* The first stop() spawned with "a"; then sendMessage("") was called and the
\* second stop() raised the no-prompt error.
C8_Witness ==
    /\ Len(stops) = 2
    /\ stops[1].text = "a" /\ SpawnsOf(1) # {}
    /\ stops[2].text = "" /\ everSent /\ stops[2].err = NoPromptError

C10_TerminateFreshIsNoOp ==
    [][(~terminated /\ terminated' /\ nStart = 0 /\ stops = <<>>) =>
           /\ "terminate" \notin threw'
           /\ UNCHANGED <<options, throws, prompt, spinner, orphaned, childProcess,
                          stops, execaCalls, signals, killed, everSent, lastSent,
                          nStart, threw>>]_vars

C10_Witness ==
    /\ terminated /\ nStart = 0 /\ stops = <<>>
    /\ prompt = "a" /\ signals = EmptyBag /\ execaCalls = <<>>

\* The invocation execa makes for a stored prompt in a working directory:
\* nothing else of the session enters it.
Invocation(text, cwd) ==
    [command |-> "q", args |-> <<"chat", "--no-interactive", "--trust-all-tools", text>>,
     cwd |-> cwd, stdio |-> "inherit", shell |-> FALSE]

C12_TerminalStatesSpawnNothing ==
    [][execaCalls' # execaCalls =>
           ~(terminated \/ \E i \in DOMAIN stops : Settled(i))]_vars

(* ---------------------- claims: markdown utilities --------------------- *)

Parsed == "parseInstructions" \in called
Extracted == "extractTargetContent" \in called
\* The lines of the text that are instruction comments.
InstructionLineNumbers == {i \in DOMAIN content : IsInstruction(content[i])}
\* The lines from..to of the text, joined with newlines.
JoinedLines(from, to) ==
    IF to < from THEN <<"">> ELSE [m \in 1..(to - from + 1) |-> content[from + m - 1]]
\* The non-blank lines after line l.
NonBlankAfter(l) == {j \in DOMAIN content : j > l /\ ~IsBlank(content[j])}
Least(S) == CHOOSE x \in S : \A y \in S : x <= y

\* C13: parseInstructions returns one record per instruction comment line and
\* no other record, in document order: the line numbers are 1-based, strictly
\* increasing and exactly those of the instruction comments, and each record
\* carries the trimmed text of its line.
C13_OneRecordPerInstructionInOrder ==
    Parsed =>
        /\ Len(instructions) = Cardinality(InstructionLineNumbers)
        /\ {instructions[k].lineNumber : k \in DOMAIN instructions} = InstructionLineNumbers
        /\ \A k \in DOMAIN instructions : \A m \in DOMAIN instructions :
               k < m => instructions[k].lineNumber < instructions[m].lineNumber
        /\ \A k \in DOMAIN instructions :
               instructions[k].instruction = InstructionTexts[content[instructions[k].lineNumber]]

\* Two instruction comments, the second inside the target block of the first,
\* and a comment that is not a qmims one.
C13_Witness ==
    /\ Parsed
    /\ Len(instructions) = 2
    /\ "targetStart" \in DOMAIN instructions[1]
    /\ instructions[2].lineNumber \in
           (instructions[1].targetStart + 1)..instructions[1].targetEnd
    /\ \E i \in DOMAIN content : content[i] = "<!-- note -->"

Scanned == {parseInstructions(content)[k] : k \in DOMAIN parseInstructions(content)}

\* C16: for an instruction scanned from the text that carries target fields,
\* extractTargetContent returns the lines targetStart + 1 .. targetEnd, as
\* they are, joined with newlines; these are the lines after the start marker
\* up to the end marker (or, without one, the end of the text).
C16_ExtractsScannedTargetBlock ==
    (Extracted /\ given # <<>> /\ given[1] \in Scanned
               /\ "targetStart" \in DOMAIN given[1]) =>
        LET ts == given[1].targetStart
            te == given[1].targetEnd
        IN /\ content[ts] = TargetStartMarker
           /\ \A m \in (ts + 1)..te : content[m] # TargetEndMarker
           /\ te < Len(content) => content[te + 1] = TargetEndMarker
           /\ extracted = JoinedLines(ts + 1, te)

\* A target block of one whitespace-only line, returned untrimmed.
C16_Witness ==
    /\ Extracted /\ given # <<>> /\ given[1] \in Scanned
    /\ "targetStart" \in DOMAIN given[1]
    /\ given[1].targetEnd < Len(content)
    /\ content[given[1].targetEnd + 1] = TargetEndMarker
    /\ extracted = <<" ">>

\* C17: without an instruction, the result is null if the text has no start
\* marker, no end marker after the first start marker, or an end marker before
\* it; otherwise it is the lines between the first start marker and the end
\* marker that follows it, joined with newlines.
C17_DirectScanOfMarkers ==
    (Extracted /\ given = <<>>) =>
        LET starts == {i \in DOMAIN content : content[i] = TargetStartMarker}
            ends == {i \in DOMAIN content : content[i] = TargetEndMarker}
        IN IF \/ starts = {}
              \/ \E e \in ends : e < Least(starts)
              \/ ~\E e \in ends : e > Least(starts)
           THEN extracted = Null
           ELSE extracted = JoinedLines(Least(starts) + 1,
                                        Least({e \in ends : e > Least(starts)}) - 1)

\* A text whose block is found without an instruction.
C17_Witness ==
    /\ Extracted /\ given = <<>>
    /\ content # <<>>
    /\ IsInstruction(content[1])
    /\ extracted = <<"text">>

\* C18: for an instruction whose target bounds are absent or out of range, the
\* result is the first run of non-blank lines after the instruction's line,
\* up to the next blank line or the end of the text; and it is what the same
\* instruction without bounds gives.
C18_ParagraphFallback ==
    (Extracted /\ given # <<>> /\ ~Falsy(content)
       /\ ~(/\ {"targetStart", "targetEnd"} \subseteq DOMAIN given[1]
            /\ given[1].targetStart \in 1..Len(content)
            /\ given[1].targetEnd \in 1..Len(content))) =>
        LET after == NonBlankAfter(given[1].lineNumber)
            first == Least(after)
            run == {m \in after : \A x \in first..m : ~IsBlank(content[x])}
        IN /\ after # {} => extracted = JoinedLines(first, first + Cardinality(run) - 1)
           /\ extracted = extractTargetContent(content,
                  <<[instruction |-> given[1].instruction,
                     lineNumber |-> given[1].lineNumber]>>)

\* Bounds past the end of the text: the paragraph is found past a blank line
\* and ends at the next blank line.
C18_Witness ==
    /\ Extracted /\ given # <<>>
    /\ "targetStart" \in DOMAIN given[1]
    /\ given[1].targetStart > Len(content)
    /\ given[1].lineNumber = 1
    /\ Len(content) = 4 /\ IsBlank(content[2]) /\ IsBlank(content[4])
    /\ extracted = <<content[3]>>

\* C19: neither utility throws, on any text and instruction; on an empty or
\* missing text parseInstructions returns the empty sequence and
\* extractTargetContent returns null, with or without an instruction; and
\* extractTargetContent returns null or a string.
C19_NeverThrows ==
    /\ failed = {}
    /\ (Falsy(content) /\ Parsed) => instructions = <<>>
    /\ (Falsy(content) /\ Extracted) => extracted = Null
    /\ Extracted => extracted = Null \/ \A m \in DOMAIN extracted : extracted[m] \in Lines

\* A missing text handed to both utilities, the extraction with an instruction.
C19_Witness ==
    /\ content = <<>>
    /\ Parsed /\ Extracted
    /\ given # <<>>

(* ------------------------ claims: command handlers --------------------- *)

LoggedLevels == {l.level : l \in logged}

\* C20: once stop() has rejected because the worker failed and the handler has
\* resumed, the command has logged an error, has called process.exit with a
\* non-zero status and has ended there, and has logged no success.
C20_WorkerFailureExitsNonZero ==
    (stops # <<>> /\ stops[1].state = "rejected" /\ Settled(1) /\ pc # "settled") =>
        /\ "error" \in LoggedLevels
        /\ "success" \notin LoggedLevels
        /\ exited # <<>> /\ exited[Len(exited)] # 0
        /\ pc = "exited"

\* generate, whose worker exited with code 2 and whose handler has resumed.
C20_Witness ==
    /\ argv.command = "generate"
    /\ stops # <<>> /\ stops[1].state = "rejected"
    /\ stops[1].how = "exit" /\ stops[1].exitCode = 2
    /\ pc = "exited"
    /\ exited = <<1>>

\* C21 (as stated): a command whose markdown file holds no instruction warns
\* and does not end with a failure exit status.
C21_NoInstructionsWarnsOnly ==
    (argv.mode = "instruct" /\ "parseInstructions" \in called /\ instructions = <<>>) =>
        /\ "warn" \in LoggedLevels
        /\ "error" \notin LoggedLevels
        /\ \A k \in DOMAIN exited : exited[k] = 0

Interrupted == Log("warn", "interrupted by user") \in logged

\* C22: the SIGINT listener is registered once, with the stop() call the
\* handler then awaits; the interrupt that runs it calls terminate(), leaves
\* the stop() call unsettled and ends the program with no listener left, so
\* that no further interrupt runs it.
C22_SigintHandledOnce ==
    /\ [](/\ sigintHandlers + (IF Interrupted THEN 1 ELSE 0)
               = (IF stops # <<>> THEN 1 ELSE 0)
          /\ terminated <=> Interrupted)
    /\ [][Interrupted' /\ ~Interrupted =>
              /\ pc = "awaiting" /\ ~terminated /\ terminated'
              /\ stops' = stops /\ ~Settled(Len(stops)) /\ stops[Len(stops)].state # "resolved"
              /\ exited' = <<0>>
              /\ pc' = "exited"
              /\ sigintHandlers' = 0]_vars
    /\ [][Interrupted => UNCHANGED vars]_vars

\* An interrupt while the worker runs.
C22_Witness ==
    /\ Interrupted /\ terminated
    /\ stops # <<>> /\ stops[1].state = "running"
    /\ pc = "exited"

\* C23: in a dry run no checkQCli() call is made, the QChatProcess is not
\* started or stopped, no worker is invoked and no file is written, whatever
\* the other options are.
C23_DryRunChangesNothing ==
    argv.dryRun =>
        /\ qCliChecks = 0
        /\ nStart = 0 /\ stops = <<>> /\ execaCalls = <<>>
        /\ written = <<>>

\* A finished dry run of generate --force --yes on an existing file.
C23_Witness ==
    /\ argv.dryRun /\ argv.command = "generate" /\ argv.force /\ argv.yes
    /\ outputExists
    /\ pc = "returned"

\* The user was asked to confirm the overwrite.
Asked == overwriteAnswers # <<>>

\* C24: generate writes to an existing output file only with --force, with
\* --yes, or after the user confirmed the overwrite prompt; when the user
\* declined it, nothing is written and no worker is spawned.
C24_OverwriteNeedsConsent ==
    /\ []((Asked /\ ~overwriteAnswers[1]) =>
              written = <<>> /\ stops = <<>> /\ execaCalls = <<>>)
    /\ []((Asked /\ ~overwriteAnswers[1]) => pc = "returned" /\ exited = <<>>)
    /\ [][(written' # written /\ outputExists) =>
              argv.force \/ argv.yes \/ (Asked /\ overwriteAnswers[1])]_vars

\* The file exists, no flag is given and the user declines.
C24_Witness ==
    /\ outputExists /\ ~argv.force /\ ~argv.yes
    /\ overwriteAnswers = <<FALSE>>
    /\ pc = "returned"

\* C25 (as stated): the worker is granted unattended trust for its tools
\* only when --yes (autoApprove) is set.
C25_TrustOnlyWithYes ==
    \A k \in DOMAIN execaCalls :
        (\E i \in DOMAIN execaCalls[k].args : execaCalls[k].args[i] = "--trust-all-tools")
            => (argv.yes /\ options.autoApprove)

\* The instruction texts a prompt is built from.
PromptMentions(p) ==
    {InstructionTexts[l] : l \in {x \in DOMAIN InstructionTexts :
                                      p = InstructPrompt(InstructionTexts[x])}}

\* C30: in instruct mode, once the prompt is stored, every instruction of the
\* file has been listed, in order, and the prompt is built from the first of
\* them alone.
C30_PromptFromFirstInstructionOnly ==
    (argv.mode = "instruct" /\ everSent) =>
        /\ Len(parseInstructions(content)) >= 1
        /\ listed = [k \in DOMAIN parseInstructions(content) |->
                         parseInstructions(content)[k].instruction]
        /\ PromptMentions(prompt) = {parseInstructions(content)[1].instruction}
        /\ lastSent = prompt

\* Two different instructions, and the prompt stored.
C30_Witness ==
    /\ argv.mode = "instruct" /\ everSent
    /\ Len(listed) = 2 /\ listed[1] # listed[2]
    /\ PromptMentions(prompt) = {listed[1]}

(* ------------------------- template claims ----------------------------- *)

\* The names the registry holds, read off the built-in list and the stored map.
NamesInUse ==
    {BuiltInNames[i] : i \in DOMAIN BuiltInNames}
        \cup {customTemplates[i].name : i \in DOMAIN customTemplates}
Entries(entries) == {entries[i] : i \in DOMAIN entries}
\* The step is a call of addTemplate; the step settles call i.
AddCalled == Len(addCalls') = Len(addCalls) + 1
AddSettles(i) == addCalls[i].state = "pending" /\ addCalls'[i].state # "pending"
\* The stored map gains exactly name -> path; every other entry stays.
AddsExactly(name, path) ==
    /\ Entries(customTemplates') =
           {e \in Entries(customTemplates) : e.name # name}
               \cup {[name |-> name, path |-> path]}
    /\ Cardinality({i \in DOMAIN customTemplates' : customTemplates'[i].name = name}) = 1
    /\ Len(customTemplates') = Cardinality(Entries(customTemplates'))

\* C26: addTemplate(name, sourcePath) fails and leaves the stored map of
\* custom templates unchanged when the name is in use by a built-in or a
\* custom template or when the source file does not exist; otherwise it adds
\* exactly the entry name -> sourcePath and leaves every other entry as it was.
C26_AddTemplateAddsOrFails ==
    [][/\ AddCalled =>
            LET c == addCalls'[Len(addCalls')]
            IN /\ (c.state = "rejected") <=> (c.name \in NamesInUse)
               /\ c.state = "rejected" => c.error # ""
               /\ customTemplates' = customTemplates
       /\ \A i \in DOMAIN addCalls :
            (i \in DOMAIN addCalls' /\ AddSettles(i)) =>
                LET c == addCalls'[i]
                IN /\ (c.state = "rejected") <=> (c.exists = "no")
                   /\ c.state = "rejected" => c.error # "" /\ customTemplates' = customTemplates
                   /\ c.state = "resolved" =>
                          c.name \notin NamesInUse /\ AddsExactly(c.name, c.path)]_vars
C26_Witness ==
    /\ Len(addCalls) = 2
    /\ addCalls[1].state = "resolved"
    /\ addCalls[2].state = "rejected" /\ addCalls[2].name = addCalls[1].name
    /\ Len(customTemplates) = 1

\* C27: the built-in templates are protected: listTemplates has each of the
\* five built-in names exactly once and marked built-in, no custom template
\* has a built-in name, and removeTemplate on a built-in or unknown name fails
\* and leaves the stored map unchanged.
C27_BuiltInsProtected ==
    /\ [](/\ \A b \in DOMAIN BuiltInNames :
                /\ Cardinality({i \in DOMAIN listTemplates :
                                   listTemplates[i].name = BuiltInNames[b]}) = 1
                /\ \A i \in DOMAIN listTemplates :
                       listTemplates[i].name = BuiltInNames[b] => listTemplates[i].isBuiltIn
          /\ \A i \in DOMAIN customTemplates :
                \A b \in DOMAIN BuiltInNames : customTemplates[i].name # BuiltInNames[b])
    /\ [][removes' = removes + 1 =>
             LET name == lastRemove'.name
                 custom == {customTemplates[i].name : i \in DOMAIN customTemplates}
             IN IF name \in custom
                THEN /\ lastRemove'.error = ""
                     /\ Entries(customTemplates') =
                            {e \in Entries(customTemplates) : e.name # name}
                ELSE /\ lastRemove'.error # ""
                     /\ customTemplates' = customTemplates]_vars
C27_Witness ==
    /\ removes = 2
    /\ lastRemove = [name |-> "basic", error |-> "Cannot remove built-in template"]
    /\ customTemplates # <<>>

\* C28: `templates add` reports success ('Added template ...') only if
\* addTemplate completed without error; when it fails the handler reports the
\* error and exits with status 1 instead.
C28_SuccessOnlyIfAdded ==
    \A i \in DOMAIN addCalls :
        (~addCalls[i].awaited /\ addCalls[i].state = "rejected") =>
            /\ Log("success", "Added template") \notin logged
            /\ (pc = "exited" => Log("error", addCalls[i].error) \in logged)

(* ------------------------- callbacks that throw ------------------------ *)

\* C29: for each stop() call that spawned a worker, onExit is delivered
\* exactly once once the worker has ended, and its code is 0 exactly when the
\* worker exited with code 0, whether the callbacks return or throw.
C29_ExitSignalledOnce ==
    \A i \in DOMAIN stops :
        (Settled(i) /\ stops[i].how \in {"exit", "signal"}) =>
            /\ SignalCount(i, "onExit") = 1
            /\ \A s \in BagToSet(signals) :
                   (s.stop = i /\ s.sig = "onExit") =>
                       ((s.code = 0) <=> (stops[i].exitCode = 0))

====
